---- MODULE Spec2Model ----
(***************************************************************************)
(* The Tetris component of src/src/App.tsx as a state machine.             *)
(*                                                                         *)
(* The React state cells (board, currentPiece, position, gameOver, score)  *)
(* are the variables.  One action stands for one handler invocation        *)
(* together with the re-render and the effects that follow it: every       *)
(* useCallback closure reads the state of the render that created it, so   *)
(* inside an action the unprimed variables are what the closures see and   *)
(* the primed variables are the state of the next render.  When a handler  *)
(* calls a plain setter twice for the same cell, the last call wins.       *)
(* Handlers are serialised: an event is handled by the closures of the     *)
(* last committed render, after that render's effects have run.            *)
(*                                                                         *)
(* timers and listeners count what the effects of lines 113-142 have       *)
(* registered with the browser: the intervals of setInterval and the       *)
(* keydown listeners of window.  The interval callback runs only while an  *)
(* interval is registered and a key is handled only while a listener is.   *)
(*                                                                         *)
(* The grid is scaled down from the source's 10 x 20 so that settles,      *)
(* complete rows and game over are all within exhaustive reach.            *)
(***************************************************************************)
EXTENDS Integers, Sequences, FiniteSets

VARIABLES board, currentPiece, position, gameOver, score, merges, last,
          timers, listeners

vars ==
  <<board, currentPiece, position, gameOver, score, merges, last, timers, listeners>>

\* Scaled-down grid (source: 10 and 20), the number of merges into the board
\* that are explored (a merge reaches the board only through ArrowDown), and
\* how many of the seven tetrominos, in source order, the random draw of
\* spawnNewPiece covers.
BOARD_WIDTH == 5
BOARD_HEIGHT == 5
MaxMerges == 1
NumPieces == 2

\* An empty cell (the source's 0; colours are strings, so is this marker).
EMPTY == "0"

TETROMINOS ==
  << [shape |-> << <<1, 1>>, <<1, 1>> >>,       color |-> "#ffd800"],
     [shape |-> << <<1, 1, 1, 1>> >>,           color |-> "#00f0f0"],
     [shape |-> << <<1, 1, 1>>, <<0, 1, 0>> >>, color |-> "#aa00ff"],
     [shape |-> << <<1, 1, 0>>, <<0, 1, 1>> >>, color |-> "#ff0000"],
     [shape |-> << <<0, 1, 1>>, <<1, 1, 0>> >>, color |-> "#00ff00"],
     [shape |-> << <<1, 1, 1>>, <<1, 0, 0>> >>, color |-> "#0000ff"],
     [shape |-> << <<1, 1, 1>>, <<0, 0, 1>> >>, color |-> "#ff7f00"] >>

\* currentPiece === null
NoPiece == [shape |-> << >>, color |-> "null"]

\* The values TETROMINOS[Math.floor(Math.random() * TETROMINOS.length)] takes.
Pieces == {TETROMINOS[i] : i \in 1..NumPieces}

createEmptyBoard == [r \in 1..BOARD_HEIGHT |-> [c \in 1..BOARD_WIDTH |-> EMPTY]]

\* The occupied cells of a shape as 0-based <<row, column>> offsets.
Cells(shape) ==
  {c \in (0..(Len(shape) - 1)) \X (0..(Len(shape[1]) - 1)) :
      shape[c[1] + 1][c[2] + 1] # 0}

\* A spawn origin one row above the grid.
SpawnPositionAbove == [x |-> (BOARD_WIDTH \div 2) - 1, y |-> -1]

\* Math.floor(BOARD_WIDTH / 2) - 1, row 0
SpawnPosition == [x |-> (BOARD_WIDTH \div 2) - 1, y |-> 0]

\* isValidMove rejecting column 0 as well (boardX <= 0).
isValidMoveLeftOffByOne(piece, newX, newY) ==
  ~ \E c \in Cells(piece.shape) :
      LET boardX == newX + c[2]
          boardY == newY + c[1]
      IN  \/ boardX <= 0
          \/ boardX >= BOARD_WIDTH
          \/ boardY >= BOARD_HEIGHT
          \/ (boardY >= 0 /\ board[boardY + 1][boardX + 1] # EMPTY)

\* isValidMove without the occupancy test.
isValidMoveNoOccupancy(piece, newX, newY) ==
  ~ \E c \in Cells(piece.shape) :
      LET boardX == newX + c[2]
          boardY == newY + c[1]
      IN  \/ boardX < 0
          \/ boardX >= BOARD_WIDTH
          \/ boardY >= BOARD_HEIGHT

\* isValidMove of the current render: it closes over board.
isValidMove(piece, newX, newY) ==
  ~ \E c \in Cells(piece.shape) :
      LET boardX == newX + c[2]
          boardY == newY + c[1]
      IN  \/ boardX < 0
          \/ boardX >= BOARD_WIDTH
          \/ boardY >= BOARD_HEIGHT
          \/ (boardY >= 0 /\ board[boardY + 1][boardX + 1] # EMPTY)

\* The board mergePieceToBoard passes to setBoard.
mergePieceToBoard ==
  [r \in 1..BOARD_HEIGHT |-> [c \in 1..BOARD_WIDTH |->
      IF <<r - 1 - position.y, c - 1 - position.x>> \in Cells(currentPiece.shape)
      THEN currentPiece.color
      ELSE board[r][c]]]

\* The transform mapping over shape in place of shape[0]: the columns beyond
\* the number of rows are lost.
rotateShapeOverRows(shape) ==
  [i \in 1..Len(shape) |-> [j \in 1..Len(shape) |-> shape[Len(shape) + 1 - j][i]]]

\* shape[0].map((_, index) => shape.map(row => row[index]).reverse())
rotateShape(shape) ==
  [i \in 1..Len(shape[1]) |-> [j \in 1..Len(shape) |-> shape[Len(shape) + 1 - j][i]]]

isComplete(row) == \A c \in 1..Len(row) : row[c] # EMPTY

\* The filter testing cell !== 0: it keeps the rows that hold a settled cell,
\* complete rows included.
RECURSIVE filterRowsNonEmpty(_)
filterRowsNonEmpty(rows) ==
  IF rows = << >> THEN << >>
  ELSE IF \E c \in 1..Len(Head(rows)) : Head(rows)[c] # EMPTY
       THEN <<Head(rows)>> \o filterRowsNonEmpty(Tail(rows))
       ELSE filterRowsNonEmpty(Tail(rows))

\* board.filter(row => row.some(cell => cell === 0))
RECURSIVE filterRows(_)
filterRows(rows) ==
  IF rows = << >> THEN << >>
  ELSE IF isComplete(Head(rows)) THEN filterRows(Tail(rows))
       ELSE <<Head(rows)>> \o filterRows(Tail(rows))

\* The refill with push in place of unshift.
RECURSIVE pushRows(_)
pushRows(rows) ==
  IF Len(rows) < BOARD_HEIGHT
  THEN pushRows(rows \o <<[c \in 1..BOARD_WIDTH |-> EMPTY]>>)
  ELSE rows

\* The refill looping while newBoard.length <= BOARD_HEIGHT.
RECURSIVE unshiftRowsOneTooMany(_)
unshiftRowsOneTooMany(rows) ==
  IF Len(rows) <= BOARD_HEIGHT
  THEN unshiftRowsOneTooMany(<<[c \in 1..BOARD_WIDTH |-> EMPTY]>> \o rows)
  ELSE rows

\* while (newBoard.length < BOARD_HEIGHT) newBoard.unshift(empty row)
RECURSIVE unshiftRows(_)
unshiftRows(rows) ==
  IF Len(rows) < BOARD_HEIGHT
  THEN unshiftRows(<<[c \in 1..BOARD_WIDTH |-> EMPTY]>> \o rows)
  ELSE rows

\* linesCleared taken after the refill.
linesClearedAfterRefill == BOARD_HEIGHT - Len(unshiftRows(filterRows(board)))

\* let linesCleared = BOARD_HEIGHT - newBoard.length
linesCleared == BOARD_HEIGHT - Len(filterRows(board))

\* The board and the score checkLines passes to setBoard and setScore.
checkLinesBoard == unshiftRows(filterRows(board))

checkLinesScore == score + linesCleared * 100

\* The effect never re-run.
gameOverEffectNever == gameOver' = gameOver

\* The effect of lines 144-148, run on the state of the next render.
gameOverEffect ==
  gameOver' = (gameOver \/ (currentPiece # NoPiece
                            /\ ~isValidMove(currentPiece, position.x, position.y))')

Max(a, b) == IF a >= b THEN a ELSE b

\* Nothing registered yet, and one registration in place.
Unregistered == [registered |-> 0, peak |-> 0]

Registered == [registered |-> 1, peak |-> 1]

\* An effect re-run whose body runs before the cleanup of the run before.
reRunSetupFirst(reg, release, register) ==
  [registered |-> reg.registered + register - release,
   peak |-> Max(reg.peak, reg.registered + register)]

\* One re-run of an effect: React calls the cleanup the run before returned
\* (release registrations go), then the body (register registrations come).
\* registered is the number in place afterwards, peak the largest number ever
\* in place at once.
reRun(reg, release, register) ==
  [registered |-> reg.registered - release + register,
   peak |-> Max(reg.peak, reg.registered - release + register)]

\* The effect of lines 131-142 in a render whose gameOver is now: clearInterval
\* if the run before returned a cleanup, setInterval unless gameOver.
gameLoopEffect(reg, cleanup, now) ==
  reRun(reg, IF cleanup THEN 1 ELSE 0, IF now THEN 0 ELSE 1)

\* The effect of lines 113-129: removeEventListener if the run before returned
\* a cleanup, then addEventListener.
keyEffect(reg, cleanup) == reRun(reg, IF cleanup THEN 1 ELSE 0, 1)

\* The effects after a handler has set state.  Every such handler sets board,
\* currentPiece or position, which all the callbacks in the dependency lists
\* close over, so both effects re-run in the render of the handler's updates,
\* where gameOver is still the old value, and once more in the render that
\* follows if the game-over effect sets the flag.
runEffects ==
  /\ timers' = LET t == gameLoopEffect(timers, ~gameOver, gameOver)
               IN  IF gameOver' # gameOver
                   THEN gameLoopEffect(t, ~gameOver, gameOver')
                   ELSE t
  /\ listeners' = LET l == keyEffect(listeners, TRUE)
                  IN  IF gameOver' # gameOver THEN keyEffect(l, TRUE) ELSE l

\* A handler that sets no state: no render, no effect.
noRender == UNCHANGED <<timers, listeners>>

Init ==
  /\ board = createEmptyBoard
  /\ currentPiece = NoPiece
  /\ position = [x |-> 0, y |-> 0]
  /\ gameOver = FALSE
  /\ score = 0
  /\ merges = 0
  /\ last = "init"
  /\ timers = Unregistered
  /\ listeners = Unregistered

\* The effects of the first render: useEffect(() => { if (!currentPiece)
\* spawnNewPiece(); }), the first run of the key and interval effects, and the
\* effects of the render that spawnNewPiece causes.
Mount ==
  /\ currentPiece = NoPiece
  /\ listeners = Unregistered
  /\ currentPiece' \in Pieces
  /\ position' = SpawnPosition
  /\ UNCHANGED <<board, score, merges>>
  /\ last' = "spawned"
  /\ gameOverEffect
  /\ timers' = LET t == gameLoopEffect(gameLoopEffect(timers, FALSE, gameOver),
                                       ~gameOver, gameOver)
               IN  IF gameOver' # gameOver
                   THEN gameLoopEffect(t, ~gameOver, gameOver')
                   ELSE t
  /\ listeners' = LET l == keyEffect(keyEffect(listeners, FALSE), TRUE)
                  IN  IF gameOver' # gameOver THEN keyEffect(l, TRUE) ELSE l

\* The component is removed: React calls the cleanup each effect returned.
Unmount ==
  /\ listeners.registered > 0
  /\ timers' = gameLoopEffect(timers, ~gameOver, TRUE)
  /\ listeners' = reRun(listeners, 1, 0)
  /\ last' = "unmounted"
  /\ UNCHANGED <<board, currentPiece, position, gameOver, score, merges>>

\* moveDown takes its first branch: the piece is valid one row lower.
canMoveDown ==
  currentPiece # NoPiece /\ isValidMove(currentPiece, position.x, position.y + 1)

\* The second branch taken whenever there is a piece (an if in place of the
\* else if).
mustSettleAlways == currentPiece # NoPiece

\* moveDown takes its second branch: mergePieceToBoard(); spawnNewPiece().
mustSettle ==
  currentPiece # NoPiece /\ ~isValidMove(currentPiece, position.x, position.y + 1)

\* What moveDown sets for currentPiece and position (lines 70-77, 32-36).
moveDownPiece ==
  \/ /\ canMoveDown
     /\ position' = [position EXCEPT !.y = position.y + 1]
     /\ UNCHANGED currentPiece
  \/ /\ mustSettle
     /\ currentPiece' \in Pieces
     /\ position' = SpawnPosition
  \/ /\ currentPiece = NoPiece
     /\ UNCHANGED <<currentPiece, position>>

moveDownOutcome ==
  IF canMoveDown THEN "fell" ELSE IF mustSettle THEN "settled" ELSE "none"

\* The interval callback: moveDown(); checkLines().  Both closures belong to
\* the same render, so checkLines filters the board of that render and its
\* setBoard, called last, replaces the board mergePieceToBoard has set.
gameLoop ==
  /\ moveDownPiece
  /\ board' = checkLinesBoard
  /\ score' = checkLinesScore
  /\ UNCHANGED merges
  /\ last' = moveDownOutcome
  /\ gameOverEffect
  /\ runEffects

\* The interval left running after the end.
TickAfterGameOver == gameLoop

\* The callback runs while an interval is registered.
Tick == timers.registered > 0 /\ gameLoop

\* A key pressed after the end clears the flag.
IgnoredRestarts ==
  /\ listeners.registered > 0
  /\ gameOver
  /\ gameOver' = FALSE
  /\ last' = "ignored"
  /\ UNCHANGED <<board, currentPiece, position, score, merges>>
  /\ runEffects

\* handleKeyPress returns at once when gameOver is set (line 115).
Ignored ==
  /\ listeners.registered > 0
  /\ gameOver
  /\ last' = "ignored"
  /\ UNCHANGED <<board, currentPiece, position, gameOver, score, merges>>
  /\ noRender

\* case 'ArrowDown': moveDown()
ArrowDown ==
  \/ Ignored
  \/ /\ listeners.registered > 0
     /\ ~gameOver
     /\ moveDownPiece
     /\ IF mustSettle
        THEN /\ merges < MaxMerges
             /\ board' = mergePieceToBoard
             /\ merges' = merges + 1
        ELSE UNCHANGED <<board, merges>>
     /\ UNCHANGED score
     /\ last' = moveDownOutcome
     /\ gameOverEffect
     /\ IF currentPiece # NoPiece THEN runEffects ELSE noRender

\* moveHorizontally that also lifts the piece by one row.
moveHorizontallyLifting(direction) ==
  \/ Ignored
  \/ /\ listeners.registered > 0
     /\ ~gameOver
     /\ IF currentPiece # NoPiece
           /\ position.y > 0
           /\ isValidMove(currentPiece, position.x + direction, position.y - 1)
        THEN /\ position' = [x |-> position.x + direction, y |-> position.y - 1]
             /\ last' = "moved"
        ELSE /\ UNCHANGED position
             /\ last' = "moveRejected"
     /\ UNCHANGED <<board, currentPiece, score, merges>>
     /\ gameOverEffect
     /\ IF last' = "moved" THEN runEffects ELSE noRender

\* moveHorizontally without the isValidMove test.
moveHorizontallyUnchecked(direction) ==
  \/ Ignored
  \/ /\ listeners.registered > 0
     /\ ~gameOver
     /\ IF currentPiece # NoPiece
        THEN /\ position' = [position EXCEPT !.x = position.x + direction]
             /\ last' = "moved"
        ELSE /\ UNCHANGED position
             /\ last' = "moveRejected"
     /\ UNCHANGED <<board, currentPiece, score, merges>>
     /\ gameOverEffect
     /\ IF last' = "moved" THEN runEffects ELSE noRender

\* moveHorizontally(direction), lines 79-83
moveHorizontally(direction) ==
  \/ Ignored
  \/ /\ listeners.registered > 0
     /\ ~gameOver
     /\ IF currentPiece # NoPiece
           /\ isValidMove(currentPiece, position.x + direction, position.y)
        THEN /\ position' = [position EXCEPT !.x = position.x + direction]
             /\ last' = "moved"
        ELSE /\ UNCHANGED position
             /\ last' = "moveRejected"
     /\ UNCHANGED <<board, currentPiece, score, merges>>
     /\ gameOverEffect
     /\ IF last' = "moved" THEN runEffects ELSE noRender

ArrowLeft == moveHorizontally(-1)

ArrowRight == moveHorizontally(1)

rotatedPiece == [currentPiece EXCEPT !.shape = rotateShape(currentPiece.shape)]

\* rotate without the isValidMove test.
ArrowUpUnchecked ==
  \/ Ignored
  \/ /\ listeners.registered > 0
     /\ ~gameOver
     /\ IF currentPiece # NoPiece
        THEN /\ currentPiece' = rotatedPiece
             /\ last' = "rotated"
        ELSE /\ UNCHANGED currentPiece
             /\ last' = "rotateRejected"
     /\ UNCHANGED <<board, position, score, merges>>
     /\ gameOverEffect
     /\ IF last' = "rotated" THEN runEffects ELSE noRender

\* case 'ArrowUp': rotate(), lines 85-96
ArrowUp ==
  \/ Ignored
  \/ /\ listeners.registered > 0
     /\ ~gameOver
     /\ IF currentPiece # NoPiece
           /\ isValidMove(rotatedPiece, position.x, position.y)
        THEN /\ currentPiece' = rotatedPiece
             /\ last' = "rotated"
        ELSE /\ UNCHANGED currentPiece
             /\ last' = "rotateRejected"
     /\ UNCHANGED <<board, position, score, merges>>
     /\ gameOverEffect
     /\ IF last' = "rotated" THEN runEffects ELSE noRender

Next == Mount \/ Tick \/ ArrowDown \/ ArrowLeft \/ ArrowRight \/ ArrowUp

Spec == Init /\ [][Next]_vars

\* The interval callback runs again and again while the interval stays
\* registered, and the effects of the first render do run.
SpecFair == Init /\ [][Next]_vars /\ WF_vars(Tick) /\ WF_vars(Mount)

\* The component may also be removed at any time.
Live == Next \/ Unmount

SpecLifecycle == Init /\ [][Live]_vars

(***************************************************************************)
(* checkLines and isValidMove as functions of their inputs: the line-clear *)
(* pass on boards built row by row from sample rows, and the validity      *)
(* check for every orientation of every tetromino at origins in and        *)
(* around the grid.                                                        *)
(***************************************************************************)

EmptyRow == [c \in 1..BOARD_WIDTH |-> EMPTY]

SampleRows ==
  { EmptyRow,
    [c \in 1..BOARD_WIDTH |-> "#ffd800"],
    [c \in 1..BOARD_WIDTH |-> IF c = 1 THEN EMPTY ELSE "#00f0f0"],
    [c \in 1..BOARD_WIDTH |-> IF c % 2 = 0 THEN "#aa00ff" ELSE EMPTY] }

InitLines ==
  /\ board \in [1..BOARD_HEIGHT -> SampleRows]
  /\ currentPiece = NoPiece
  /\ position = [x |-> 0, y |-> 0]
  /\ gameOver = FALSE
  /\ score \in {0, 300}
  /\ merges = 0
  /\ last = "init"
  /\ timers = Registered
  /\ listeners = Registered

\* The interval callback on a board of InitLines; with no active piece it is
\* the line-clear pass alone.
SpecLines == InitLines /\ [][Tick]_vars

\* Every orientation of every tetromino.
Orientations ==
  UNION {{[TETROMINOS[i] EXCEPT !.shape = s] :
            s \in {TETROMINOS[i].shape,
                   rotateShape(TETROMINOS[i].shape),
                   rotateShape(rotateShape(TETROMINOS[i].shape)),
                   rotateShape(rotateShape(rotateShape(TETROMINOS[i].shape)))}} :
         i \in 1..Len(TETROMINOS)}

\* Boards whose rows from k down share one pattern, the rows above being empty.
SampleStacks ==
  {[r \in 1..BOARD_HEIGHT |-> IF r < k THEN EmptyRow ELSE row] :
     k \in 1..BOARD_HEIGHT, row \in SampleRows}

InitValid ==
  /\ board \in SampleStacks
  /\ currentPiece \in Orientations
  /\ position \in [x : (-2)..BOARD_WIDTH, y : (-4)..BOARD_HEIGHT]
  /\ gameOver = FALSE
  /\ score = 0
  /\ merges = 0
  /\ last = "init"
  /\ timers = Registered
  /\ listeners = Registered

\* One call isValidMove(currentPiece, position.x, position.y), its result kept.
isValidMoveCall ==
  /\ last = "init"
  /\ last' = IF isValidMove(currentPiece, position.x, position.y)
             THEN "valid" ELSE "invalid"
  /\ UNCHANGED <<board, currentPiece, position, gameOver, score, merges>>
  /\ noRender

SpecValid == InitValid /\ [][isValidMoveCall]_vars

(***************************************************************************)
(* rotate on each of the seven tetrominos, from every origin of the empty  *)
(* board at which it fits.                                                 *)
(***************************************************************************)

InitRotate ==
  /\ board = createEmptyBoard
  /\ currentPiece \in {TETROMINOS[i] : i \in 1..Len(TETROMINOS)}
  /\ position \in [x : 0..(BOARD_WIDTH - 1), y : 0..(BOARD_HEIGHT - 1)]
  /\ isValidMove(currentPiece, position.x, position.y)
  /\ gameOver = FALSE
  /\ score = 0
  /\ merges = 0
  /\ last = "init"
  /\ timers = Registered
  /\ listeners = Registered

\* One press of ArrowUp while playing.
rotateCall == ~gameOver /\ ArrowUp

SpecRotate == InitRotate /\ [][rotateCall]_vars

(***************************************************************************)
(* Play continued from a board with an overhang above a complete row.      *)
(* The board is reached from Init by ArrowDown merges alone: one           *)
(* horizontal I-piece on the floor in columns 1..4, a vertical I-piece in  *)
(* column 0 and in each column right of 4; the T-piece has just spawned.   *)
(***************************************************************************)

InitShift ==
  /\ board = [r \in 1..BOARD_HEIGHT |-> [c \in 1..BOARD_WIDTH |->
                IF c \in 2..5
                THEN IF r = BOARD_HEIGHT THEN TETROMINOS[2].color ELSE EMPTY
                ELSE IF r > BOARD_HEIGHT - 4 THEN TETROMINOS[2].color ELSE EMPTY]]
  /\ currentPiece = TETROMINOS[3]
  /\ position = SpawnPosition
  /\ gameOver = FALSE
  /\ score = 0
  /\ merges = 0
  /\ last = "settled"
  /\ timers = Registered
  /\ listeners = Registered

\* The handlers that run once a piece exists.
Play == Tick \/ ArrowDown \/ ArrowLeft \/ ArrowRight \/ ArrowUp

SpecShift == InitShift /\ [][Play]_vars

(***************************************************************************)
(* Play continued from a board with two complete rows below an overhang.   *)
(* The board is reached from Init by ArrowDown merges alone: a vertical    *)
(* I-piece in each column right of column 3, two O-pieces side by side on  *)
(* the floor in columns 0..3, and the last tetromino, rotated three times, *)
(* standing in column 0 on the O-pieces with its arm over column 1.  The   *)
(* interval callback has not run since the rows were completed: every      *)
(* state change restarts the interval.  The S-piece has just spawned.      *)
(***************************************************************************)

InitOverhang ==
  /\ board = [r \in 1..BOARD_HEIGHT |-> [c \in 1..BOARD_WIDTH |->
                IF c > 4
                THEN IF r > BOARD_HEIGHT - 4 THEN TETROMINOS[2].color ELSE EMPTY
                ELSE IF r > BOARD_HEIGHT - 2 THEN TETROMINOS[1].color
                ELSE IF \/ c = 1 /\ r >= BOARD_HEIGHT - 4
                        \/ c = 2 /\ r = BOARD_HEIGHT - 4
                     THEN TETROMINOS[7].color
                     ELSE EMPTY]]
  /\ currentPiece = TETROMINOS[5]
  /\ position = SpawnPosition
  /\ gameOver = FALSE
  /\ score = 0
  /\ merges = 0
  /\ last = "settled"
  /\ timers = Registered
  /\ listeners = Registered

SpecOverhang == InitOverhang /\ [][Play]_vars

(***************************************************************************)
(* Gravity alone: the first render, or a game in which the keys have       *)
(* stopped with k horizontal I-pieces dropped from the spawn origin and    *)
(* a piece somewhere above them, and from then on only the interval.       *)
(***************************************************************************)

DroppedStack(k) ==
  [r \in 1..BOARD_HEIGHT |-> [c \in 1..BOARD_WIDTH |->
      IF r > BOARD_HEIGHT - k /\ c > SpawnPosition.x /\ c <= SpawnPosition.x + 4
      THEN TETROMINOS[2].color
      ELSE EMPTY]]

InitGravity ==
  \/ Init
  \/ /\ \E k \in 0..(BOARD_HEIGHT - 1) : board = DroppedStack(k)
     /\ currentPiece \in Pieces
     /\ position \in [x : 0..(BOARD_WIDTH - 1), y : 0..(BOARD_HEIGHT - 1)]
     /\ isValidMove(currentPiece, position.x, position.y)
     /\ gameOver = FALSE
     /\ score = 0
     /\ merges = 0
     /\ last = "moved"
     /\ timers = Registered
     /\ listeners = Registered

Gravity == Mount \/ Tick

SpecGravity == InitGravity /\ [][Gravity]_vars /\ WF_vars(Tick) /\ WF_vars(Mount)

(***************************************************************************)
(* Vocabulary of the properties, stated without the operators above.       *)
(***************************************************************************)

InGrid(r, c) == r >= 0 /\ r < BOARD_HEIGHT /\ c >= 0 /\ c < BOARD_WIDTH

\* The 0-based <<row, column>> grid coordinates the active piece covers.
PieceCells ==
  {<<position.y + c[1], position.x + c[2]>> : c \in Cells(currentPiece.shape)}

\* shape with its origin at column x, row y lies inside the grid and on empty
\* cells only.
FitsAt(shape, x, y) ==
  \A i \in 1..Len(shape) : \A j \in 1..Len(shape[i]) :
     shape[i][j] # 0 =>
       /\ InGrid(y + i - 1, x + j - 1)
       /\ board[y + i][x + j] = EMPTY

PieceFits == FitsAt(currentPiece.shape, position.x, position.y)

CompleteRows(b) == {r \in 1..BOARD_HEIGHT : \A c \in 1..BOARD_WIDTH : b[r][c] # EMPTY}

\* b with the piece's cells painted in its colour.
Painted(b) ==
  [r \in 1..BOARD_HEIGHT |-> [c \in 1..BOARD_WIDTH |->
      IF <<r - 1, c - 1>> \in PieceCells THEN currentPiece.color ELSE b[r][c]]]

\* A step in which moveDown runs, by tick or by ArrowDown, and is rejected.
MoveDownRejected == ~gameOver /\ mustSettle /\ (Tick \/ ArrowDown)

\* C1: whenever moveDown is rejected while playing, by a gravity tick or by
\* ArrowDown, the next board is the previous board plus the piece's cells in
\* its colour, and a new piece stands in canonical orientation at the spawn
\* origin.
C1_RejectedMoveDownMergesAndSpawns ==
  [][MoveDownRejected =>
       /\ board' = Painted(board)
       /\ currentPiece' \in Pieces
       /\ position' = SpawnPosition]_vars

\* C2: once gameOver is true, no tick and no key event changes the board,
\* the active piece, its position or the score.
C2_FrozenAfterGameOver ==
  [][gameOver => UNCHANGED <<board, currentPiece, position, score>>]_vars

\* A key event has been handled while the game was over.
C2_Witness == gameOver /\ last = "ignored"

\* C3: gameOver is a one-way latch: once true it is true in every later state.
C3_GameOverLatch == [][gameOver => gameOver']_vars

\* The game was lost after a merge and a key has been pressed since.
C3_Witness == gameOver /\ merges > 0 /\ last = "ignored"

\* C4: in every step the score changes by exactly 100 times the number of
\* complete rows the step removes from the board: a line-clear pass removes
\* every complete row of the board it ran on and leaves none behind, and a
\* step without a line-clear pass leaves the score alone.
C4_ScoreCountsRemovedRows ==
  [][IF Tick
     THEN /\ score' = score + 100 * Cardinality(CompleteRows(board))
          /\ CompleteRows(board') = {}
     ELSE score' = score]_vars

\* A line-clear pass has removed a complete row.
C4_Witness == score > 0 /\ last \in {"fell", "settled"} /\ CompleteRows(board) = {}

\* The non-complete rows of the board, and how many of them lie at or above r.
KeptRows == (1..BOARD_HEIGHT) \ CompleteRows(board)

Rank(r) == Cardinality({q \in KeptRows : q <= r})

\* C5: a line-clear pass yields the non-complete rows in their original order
\* at the bottom, under exactly as many empty rows as there were complete
\* rows, and adds 100 per complete row to the score.
C5_LineClearKeepsOrder ==
  [][Tick =>
       LET k == Cardinality(CompleteRows(board))
       IN  /\ DOMAIN board' = 1..BOARD_HEIGHT
           /\ \A r \in 1..k : board'[r] = EmptyRow
           /\ \A r \in KeptRows : board'[k + Rank(r)] = board[r]
           /\ score' = score + 100 * k]_vars

\* Two complete rows were removed: two empty rows on top, two different
\* non-complete rows kept below them, and 200 scored.
C5_Witness ==
  /\ last = "none"
  /\ score = 200
  /\ board[1] = EmptyRow /\ board[2] = EmptyRow
  /\ board[BOARD_HEIGHT - 1] # EmptyRow
  /\ board[BOARD_HEIGHT] # EmptyRow
  /\ board[BOARD_HEIGHT - 1] # board[BOARD_HEIGHT]

\* C6: isValidMove(shape, x, y) is true exactly when every occupied cell
\* (i, j) of shape has 0 <= x+j < WIDTH, y+i < HEIGHT, and y+i < 0 or an empty
\* board cell at (y+i, x+j).
C6_IsValidMoveIff ==
  last \in {"valid", "invalid"} =>
    (last = "valid") <=>
      \A i \in 1..Len(currentPiece.shape) :
        \A j \in 1..Len(currentPiece.shape[i]) :
          currentPiece.shape[i][j] # 0 =>
            LET col == position.x + j - 1
                row == position.y + i - 1
            IN  /\ 0 <= col /\ col < BOARD_WIDTH
                /\ row < BOARD_HEIGHT
                /\ (row < 0 \/ board[row + 1][col + 1] = EMPTY)

\* A move found valid with the piece partly above the grid, over a board that
\* holds settled cells.
C6_Witness ==
  /\ last = "valid"
  /\ position.y < 0
  /\ position.y + Len(currentPiece.shape) > 0
  /\ board # createEmptyBoard

\* C7: a merge writes only into cells that are empty just before it, and a
\* step that changes an occupied cell is a line-clear pass.
C7_MergeWritesEmptyCells ==
  [][/\ MoveDownRejected => PieceFits
     /\ merges' # merges =>
          \A r \in 1..BOARD_HEIGHT : \A c \in 1..BOARD_WIDTH :
             board[r][c] # EMPTY => board'[r][c] = board[r][c]
     /\ (\E r \in 1..BOARD_HEIGHT : \E c \in 1..BOARD_WIDTH :
            board[r][c] # EMPTY /\ board'[r][c] # board[r][c]) => Tick]_vars

\* A second piece has been merged onto a board that held settled cells.
C7_Witness == merges = 1 /\ last = "settled" /\ score = 100

\* C8: while playing, the active piece fits at its own position, and a step
\* sets gameOver exactly when the piece it leaves does not fit at the position
\* it leaves it at.
C8_GameOverIffPieceInvalid ==
  /\ []((~gameOver /\ currentPiece # NoPiece) => PieceFits)
  /\ [][~gameOver => (gameOver' <=> (currentPiece' # NoPiece /\ ~PieceFits'))]_vars

\* The game has ended on a piece that overlaps settled cells.
C8_Witness == gameOver /\ currentPiece # NoPiece /\ ~PieceFits

\* C9: every occupied cell of the active piece lies inside the grid.
C9_PieceInsideGrid ==
  currentPiece # NoPiece => \A rc \in PieceCells : InGrid(rc[1], rc[2])

\* The O-piece at the left wall of the empty board, a further move left refused.
C9_Witness ==
  /\ board = createEmptyBoard
  /\ currentPiece = TETROMINOS[1]
  /\ position.x = 0
  /\ last = "moveRejected"

\* C10: a rejected horizontal move or rotation changes nothing; an accepted
\* horizontal move changes the column by d and nothing else; an accepted
\* rotation changes the shape and nothing else.
C10_RejectedIsNoOp ==
  [][~gameOver =>
       /\ \A d \in {-1, 1} :
            moveHorizontally(d) =>
              IF currentPiece # NoPiece
                 /\ FitsAt(currentPiece.shape, position.x + d, position.y)
              THEN /\ position' = [x |-> position.x + d, y |-> position.y]
                   /\ UNCHANGED <<board, currentPiece, score, gameOver>>
              ELSE UNCHANGED <<board, currentPiece, position, score, gameOver>>
       /\ ArrowUp =>
            IF currentPiece # NoPiece
               /\ FitsAt(rotateShape(currentPiece.shape), position.x, position.y)
            THEN /\ currentPiece'.shape = rotateShape(currentPiece.shape)
                 /\ currentPiece'.color = currentPiece.color
                 /\ UNCHANGED <<board, position, score, gameOver>>
            ELSE UNCHANGED <<board, currentPiece, position, score, gameOver>>]_vars

\* A rotation of a falling piece has been refused.
C10_Witness == ~gameOver /\ currentPiece # NoPiece /\ last = "rotateRejected"

Occupied(shape) ==
  Cardinality({c \in (1..Len(shape)) \X (1..Len(shape[1])) : shape[c[1]][c[2]] # 0})

\* C11: for each of the seven tetrominos four rotations in succession give
\* back the occupancy matrix, and one rotation keeps the number of occupied
\* cells and the colour.
C11_FourRotationsIdentity ==
  /\ [](currentPiece.shape =
          rotateShape(rotateShape(rotateShape(rotateShape(currentPiece.shape)))))
  /\ [](Occupied(rotateShape(currentPiece.shape)) = Occupied(currentPiece.shape))
  /\ [][currentPiece' # currentPiece =>
          /\ currentPiece'.shape = rotateShape(currentPiece.shape)
          /\ currentPiece'.color = currentPiece.color
          /\ Occupied(currentPiece'.shape) = 4]_vars

\* T, J or L, whose four orientations differ, back in its canonical
\* orientation after rotations.
C11_Witness ==
  /\ last = "rotated"
  /\ \E i \in {3, 6, 7} : currentPiece = TETROMINOS[i]

\* C12: the board has exactly BOARD_HEIGHT rows of exactly BOARD_WIDTH cells in
\* every reachable state, after merges and line clears alike.
C12_BoardDimensions ==
  /\ DOMAIN board = 1..BOARD_HEIGHT
  /\ \A r \in 1..BOARD_HEIGHT : DOMAIN board[r] = 1..BOARD_WIDTH

\* Pieces have been merged and a line-clear pass has removed a row, cells of
\* the merged pieces remaining.
C12_Witness == merges > 0 /\ score > 0 /\ board # createEmptyBoard

C14_MergeInsideGrid ==
  /\ [](position.y >= 0)
  /\ [][MoveDownRejected =>
          /\ \A rc \in PieceCells : InGrid(rc[1], rc[2])
          /\ Cardinality({rc \in (1..BOARD_HEIGHT) \X (1..BOARD_WIDTH) :
                            mergePieceToBoard[rc[1]][rc[2]] # board[rc[1]][rc[2]]}) = 4]_vars

\* A first piece has just been merged and its successor stands at the spawn
\* origin.
C14_Witness == merges = 1 /\ last = "settled" /\ position = SpawnPosition

\* Some empty cell of the board is occupied after the step.
CellFilled ==
  \E r \in 1..BOARD_HEIGHT : \E c \in 1..BOARD_WIDTH :
     board[r][c] = EMPTY /\ board'[r][c] # EMPTY

OccupiedCells(b) ==
  {rc \in (1..BOARD_HEIGHT) \X (1..BOARD_WIDTH) : b[rc[1]][rc[2]] # EMPTY}

\* The step merges the active piece, which cannot go one row lower.
MergeStep ==
  /\ ~gameOver
  /\ currentPiece # NoPiece
  /\ ~FitsAt(currentPiece.shape, position.x, position.y + 1)
  /\ board' = Painted(board)

\* C15 as stated: no step other than a merge turns an empty board cell into an
\* occupied one.
C15_OnlyMergeFillsCells == [][CellFilled => MergeStep]_vars

\* C15 amended: a step that turns an empty cell into an occupied one is a
\* merge, or a line-clear pass that removes a complete row and moves the rows
\* above it down; only a merge adds settled cells, and a step that is neither
\* a merge nor a gravity tick leaves the board as it is.
C15_OnlyMergeAddsCells ==
  [][/\ CellFilled => (MergeStep \/ (Tick /\ CompleteRows(board) # {}))
     /\ ~MergeStep =>
          Cardinality(OccupiedCells(board')) <= Cardinality(OccupiedCells(board))
     /\ ~MergeStep /\ ~Tick => board' = board]_vars

\* The T-piece was merged above the complete row and a gravity tick has moved
\* it down: its stem is on the floor next to an empty cell that its bar covers.
C15_Witness ==
  /\ score = 100
  /\ \E c \in 2..(BOARD_WIDTH - 1) :
       /\ board[BOARD_HEIGHT][c] = TETROMINOS[3].color
       /\ board[BOARD_HEIGHT][c + 1] = EMPTY
       /\ board[BOARD_HEIGHT - 1][c + 1] = TETROMINOS[3].color

C17_OneTimerOneListener ==
  /\ [](timers.peak <= 1 /\ listeners.peak <= 1)
  /\ [](timers.registered \in {0, 1} /\ listeners.registered \in {0, 1})
  /\ [](gameOver => timers.registered = 0)
  /\ [][last' = "unmounted" =>
          timers'.registered = 0 /\ listeners'.registered = 0]_vars

\* The game has ended: the interval is cleared, the listener is still there.
C17_Witness ==
  /\ gameOver
  /\ timers = [registered |-> 0, peak |-> 1]
  /\ listeners = Registered
  /\ last = "ignored"

\* C18: a gravity tick that lowers a valid piece leaves it valid on the board
\* its line-clear pass produces, and gameOver is only ever set by a step that
\* spawns a piece at the spawn origin.
C18_LineClearKeepsPieceValid ==
  /\ [][Tick /\ PieceFits /\ FitsAt(currentPiece.shape, position.x, position.y + 1)
          => PieceFits']_vars
  /\ [][~gameOver /\ gameOver' =>
          last' \in {"settled", "spawned"} /\ position' = SpawnPosition]_vars

\* C19: with no key pressed since the first render, and the interval firing
\* again and again, the game is eventually over.
C19_GravityAloneEndsGame == currentPiece = NoPiece => <>gameOver

====
